---- MODULE Spec2Model ----
(***************************************************************************)
(* External-dependency health checks of the devtools backend:              *)
(* DevToolsBackendApi.listExternalDependencyDetails and its two checkers,  *)
(* pingExternalDependency and fetchExternalDependency                      *)
(* (plugins/devtools-backend/src/api/DevToolsBackendApi.ts).               *)
(*                                                                         *)
(* One run of listExternalDependencyDetails is modelled.  The async        *)
(* function is cut at its suspension points (the two awaits); the network  *)
(* (ping.promise.probe, node-fetch) answers each call with any outcome it  *)
(* can produce, or never.                                                  *)
(***************************************************************************)
EXTENDS Integers, Sequences, FiniteSets, TLC

(* ---------------------------- bounds ----------------------------------- *)

\* Longest configured endpoint list explored.
MaxEndpoints == 2

(* ------------------------ input domains -------------------------------- *)

Names == {"a", "b"}

Targets == {"t1", "t2"}

\* endpoint.type as read from configuration; "grpc" stands for any value
\* that is neither 'ping' nor 'fetch'.
Types == {"ping", "fetch", "grpc"}

Endpoint == [name : Names, type : Types, target : Targets]

\* pingResult.packetLoss values: a numeric string or the literal "unknown".
PacketLosses == {"0.000", "100.000", "unknown"}

\* pingResult.output values, the empty string included.
Outputs == {"", "PING output"}

\* res.status values.
StatusCodes == {200, 204, 500}

\* err.message values of a rejected fetch / a rejected probe.
FetchFailures == {"ECONNREFUSED"}

ProbeFailures == {"ping.probe: spawn error"}

\* What `await ping.promise.probe(target)` can resolve to.
PingResponse == [kind : {"probe"}, alive : BOOLEAN,
                 packetLoss : PacketLosses, output : Outputs]

\* What `fetch(target)` can resolve to.
FetchResponse == [kind : {"response"}, status : StatusCodes]

\* An optional value (TypeScript `T | undefined`): <<>> is undefined.
Undefined == <<>>

Some(v) == <<v>>

\* a ?? b
Coalesce(a, b) == IF a = Undefined THEN b ELSE a

\* All endpoint lists of length 0..MaxEndpoints.
EndpointLists == UNION {[1..n -> Endpoint] : n \in 0..MaxEndpoints}

\* config.getOptional<Endpoint[]>(key): undefined when the key is not set.
Configs == {Undefined} \cup {Some(l) : l \in EndpointLists}

(* ----------------------------- state ----------------------------------- *)

VARIABLES
    config,     \* value of devTools.externalDependencies.endpoints (optional)
    pc,         \* position of the run: idle, loop, awaitPing, awaitFetch,
                \* returned, raised
    i,          \* position of the for..of iterator (1-based)
    result,     \* the `result` array
    calls,      \* network calls issued so far, in issue order
    pending,    \* endpoint positions whose network call has not settled
    outcomes,   \* endpoint position -> how its network call settled
    log         \* logger calls, in order

vars == <<config, pc, i, result, calls, pending, outcomes, log>>

\* The configured list, empty when not configured.
endpoints == IF config = Undefined THEN <<>> ELSE config[1]

Info(what, name) == [level |-> "info", what |-> what, name |-> name]

Error(what, name) == [level |-> "error", what |-> what, name |-> name]

(* --------------------------- checkers ---------------------------------- *)

\* fetchExternalDependency, after `fetch(endpoint.target)` settled with o.
FetchRecord_ErrorOnNon200(endpoint, o) ==
    LET status == IF o.kind = "response"
                  THEN Some(IF o.status = 200 THEN "Healthy" ELSE "Unhealthy")
                  ELSE Undefined
        error  == IF o.kind = "response"
                  THEN (IF o.status = 200 THEN Undefined ELSE Some("Unhealthy"))
                  ELSE Some(o.message)
    IN  [name   |-> endpoint.name,
         type   |-> endpoint.type,
         target |-> endpoint.target,
         status |-> Coalesce(status, Some("Unhealthy"))[1],
         error  |-> Coalesce(error, Undefined)]

FetchRecord(endpoint, o) ==
    LET status == IF o.kind = "response"
                  THEN Some(IF o.status = 200 THEN "Healthy" ELSE "Unhealthy")
                  ELSE Undefined
        error  == IF o.kind = "response"
                  THEN Undefined
                  ELSE Some(o.message)
    IN  [name   |-> endpoint.name,
         type   |-> endpoint.type,
         target |-> endpoint.target,
         status |-> Coalesce(status, Some("Unhealthy"))[1],
         error  |-> Coalesce(error, Undefined)]

\* Logger calls of fetchExternalDependency.
FetchLog(endpoint, o) ==
    IF o.kind = "response"
    THEN <<Info("fetch status", endpoint.name)>>
    ELSE <<Error("fetch failed", endpoint.name)>>

\* pingExternalDependency, after the probe resolved with pingResult.
PingRecord_ErrorOnlyOnTotalLoss(endpoint, pingResult) ==
    LET error == IF pingResult.packetLoss = "100.000"
                 THEN Some(IF pingResult.output = ""
                           THEN endpoint.target \o " - Unknown"
                           ELSE pingResult.output)
                 ELSE Undefined
    IN  [name   |-> endpoint.name,
         type   |-> endpoint.type,
         target |-> endpoint.target,
         status |-> IF pingResult.alive THEN "Healthy" ELSE "Unhealthy",
         error  |-> Coalesce(error, Undefined)]

PingRecord(endpoint, pingResult) ==
    LET error == IF \/ pingResult.packetLoss = "100.000"
                    \/ pingResult.packetLoss = "unknown"
                 THEN Some(IF pingResult.output = ""
                           THEN endpoint.target \o " - Unknown"
                           ELSE pingResult.output)
                 ELSE Undefined
    IN  [name   |-> endpoint.name,
         type   |-> endpoint.type,
         target |-> endpoint.target,
         status |-> IF pingResult.alive THEN "Healthy" ELSE "Unhealthy",
         error  |-> Coalesce(error, Undefined)]

\* Logger calls of pingExternalDependency.
PingLog(endpoint, pingResult) ==
    (IF \/ pingResult.packetLoss = "100.000"
        \/ pingResult.packetLoss = "unknown"
     THEN <<Error("ping failed", endpoint.name)>>
     ELSE <<>>)
    \o <<Info("ping results", endpoint.name)>>

(* --------------------------- the run ----------------------------------- *)

Init ==
    /\ config \in Configs
    /\ pc = "idle"
    /\ i = 1
    /\ result = <<>>
    /\ calls = <<>>
    /\ pending = {}
    /\ outcomes = <<>>
    /\ log = <<>>

\* Entry of listExternalDependencyDetails without the `if (!endpoints)`
\* guard: iterating undefined throws a TypeError.
Begin_NoAbsentGuard ==
    /\ pc = "idle"
    /\ result' = <<>>
    /\ i' = 1
    /\ pc' = IF config = Undefined THEN "raised" ELSE "loop"
    /\ UNCHANGED <<config, calls, pending, outcomes, log>>

\* Entry of listExternalDependencyDetails up to the for loop.
Begin ==
    /\ pc = "idle"
    /\ result' = <<>>
    /\ i' = 1
    /\ pc' = IF config = Undefined THEN "returned" ELSE "loop"
    /\ UNCHANGED <<config, calls, pending, outcomes, log>>

\* case 'ping' with the await dropped: the probe is started and the loop
\* goes on.
DispatchPing_NoAwait ==
    /\ pc = "loop"
    /\ i <= Len(endpoints)
    /\ endpoints[i].type = "ping"
    /\ log' = Append(log, Info("checking", endpoints[i].name))
    /\ calls' = Append(calls, [idx |-> i, kind |-> "ping",
                               target |-> endpoints[i].target])
    /\ pending' = pending \cup {i}
    /\ i' = i + 1
    /\ UNCHANGED <<config, pc, result, outcomes>>

\* Loop body, case 'ping': log, call ping.promise.probe, suspend.
DispatchPing ==
    /\ pc = "loop"
    /\ i <= Len(endpoints)
    /\ endpoints[i].type = "ping"
    /\ log' = Append(log, Info("checking", endpoints[i].name))
    /\ calls' = Append(calls, [idx |-> i, kind |-> "ping",
                               target |-> endpoints[i].target])
    /\ pending' = pending \cup {i}
    /\ pc' = "awaitPing"
    /\ UNCHANGED <<config, i, result, outcomes>>

\* case 'fetch' with the await dropped.
DispatchFetch_NoAwait ==
    /\ pc = "loop"
    /\ i <= Len(endpoints)
    /\ endpoints[i].type = "fetch"
    /\ log' = Append(log, Info("checking", endpoints[i].name))
    /\ calls' = Append(calls, [idx |-> i, kind |-> "fetch",
                               target |-> endpoints[i].target])
    /\ pending' = pending \cup {i}
    /\ i' = i + 1
    /\ UNCHANGED <<config, pc, result, outcomes>>

\* Loop body, case 'fetch': log, call fetch, suspend.
DispatchFetch ==
    /\ pc = "loop"
    /\ i <= Len(endpoints)
    /\ endpoints[i].type = "fetch"
    /\ log' = Append(log, Info("checking", endpoints[i].name))
    /\ calls' = Append(calls, [idx |-> i, kind |-> "fetch",
                               target |-> endpoints[i].target])
    /\ pending' = pending \cup {i}
    /\ pc' = "awaitFetch"
    /\ UNCHANGED <<config, i, result, outcomes>>

\* Loop body, default case: log, then `return result`.
ReturnOnUnknownType ==
    /\ pc = "loop"
    /\ i <= Len(endpoints)
    /\ endpoints[i].type \notin {"ping", "fetch"}
    /\ log' = Append(log, Info("checking", endpoints[i].name))
    /\ pc' = "returned"
    /\ UNCHANGED <<config, i, result, calls, pending, outcomes>>

\* The iterator is exhausted: `return result` after the loop.
ReturnAfterLoop ==
    /\ pc = "loop"
    /\ i > Len(endpoints)
    /\ pc' = "returned"
    /\ UNCHANGED <<config, i, result, calls, pending, outcomes, log>>

\* The probe resolves: rest of pingExternalDependency, result.push, break.
PingResolve ==
    /\ pc = "awaitPing"
    /\ i \in pending
    /\ \E pingResult \in PingResponse :
          /\ outcomes' = outcomes @@ (i :> pingResult)
          /\ result' = Append(result, PingRecord(endpoints[i], pingResult))
          /\ log' = log \o PingLog(endpoints[i], pingResult)
    /\ pending' = pending \ {i}
    /\ i' = i + 1
    /\ pc' = "loop"
    /\ UNCHANGED <<config, calls>>

\* The probe rejects: pingExternalDependency has no handler, the rejection
\* leaves pingExternalDependency and listExternalDependencyDetails.
PingReject ==
    /\ pc = "awaitPing"
    /\ i \in pending
    /\ \E m \in ProbeFailures :
          outcomes' = outcomes @@ (i :> [kind |-> "probeRejected", message |-> m])
    /\ pending' = pending \ {i}
    /\ pc' = "raised"
    /\ UNCHANGED <<config, i, result, calls, log>>

\* fetch resolves with a response: .then handler, record, result.push, break.
FetchResolve ==
    /\ pc = "awaitFetch"
    /\ i \in pending
    /\ \E res \in FetchResponse :
          /\ outcomes' = outcomes @@ (i :> res)
          /\ result' = Append(result, FetchRecord(endpoints[i], res))
          /\ log' = log \o FetchLog(endpoints[i], res)
    /\ pending' = pending \ {i}
    /\ i' = i + 1
    /\ pc' = "loop"
    /\ UNCHANGED <<config, calls>>

\* fetch rejects: .catch handler, record, result.push, break.
FetchReject ==
    /\ pc = "awaitFetch"
    /\ i \in pending
    /\ \E m \in FetchFailures :
          LET err == [kind |-> "fetchRejected", message |-> m]
          IN  /\ outcomes' = outcomes @@ (i :> err)
              /\ result' = Append(result, FetchRecord(endpoints[i], err))
              /\ log' = log \o FetchLog(endpoints[i], err)
    /\ pending' = pending \ {i}
    /\ i' = i + 1
    /\ pc' = "loop"
    /\ UNCHANGED <<config, calls>>

\* Steps of the run itself (the microtask queue always runs a ready
\* continuation).
Step ==
    \/ Begin
    \/ DispatchPing
    \/ DispatchFetch
    \/ ReturnOnUnknownType
    \/ ReturnAfterLoop

Next ==
    \/ Begin
    \/ DispatchPing
    \/ DispatchFetch
    \/ ReturnOnUnknownType
    \/ ReturnAfterLoop
    \/ PingResolve
    \/ PingReject
    \/ FetchResolve
    \/ FetchReject

Spec == Init /\ [][Next]_vars

\* The run's own steps are taken whenever they are ready; a network call
\* (PingResolve, PingReject, FetchResolve, FetchReject) has no timeout and
\* may stay unanswered forever.
FairSpec == Spec /\ WF_vars(Step)

(* ------------------------- vocabulary ---------------------------------- *)

Done == pc \in {"returned", "raised"}

ValidType(e) == e.type \in {"ping", "fetch"}

AllValid == \A k \in DOMAIN endpoints : ValidType(endpoints[k])

\* Position of the first endpoint with an unrecognized type (when ~AllValid).
FirstUnknown ==
    CHOOSE k \in DOMAIN endpoints :
        /\ ~ValidType(endpoints[k])
        /\ \A j \in 1..(k - 1) : ValidType(endpoints[j])

SameEndpoint(r, e) ==
    r.name = e.name /\ r.type = e.type /\ r.target = e.target

Dispatched == {calls[c].idx : c \in DOMAIN calls}

Rejected(o) == o.kind \in {"probeRejected", "fetchRejected"}

\* Every way a check can fail.
Failed(o) ==
    \/ Rejected(o)
    \/ o.kind = "response" /\ o.status # 200
    \/ o.kind = "probe" /\ ~o.alive

\* The record a run over the single endpoint e returns when its call
\* settles with o (o is not a rejected probe).
Alone(e, o) == IF o.kind = "probe" THEN PingRecord(e, o) ELSE FetchRecord(e, o)

(* --------------------------- properties -------------------------------- *)

\* C1: for a list of N endpoints that all have type ping or fetch, the run
\* returns exactly N records, the k-th carrying the k-th endpoint's name,
\* type and target, whatever the outcome of each check; a returned list is
\* shorter than the input only when some endpoint has an unrecognized type.
C1_OneRecordPerValidEndpoint ==
    /\ (AllValid /\ Done) =>
          /\ pc = "returned"
          /\ Len(result) = Len(endpoints)
          /\ \A k \in DOMAIN endpoints : SameEndpoint(result[k], endpoints[k])
    /\ (pc = "returned" /\ Len(result) < Len(endpoints)) => ~AllValid

\* C2: in every record, error is present only when status is Unhealthy.
C2_ErrorOnlyWhenUnhealthy ==
    \A k \in DOMAIN result :
        result[k].error # Undefined => result[k].status = "Unhealthy"

\* C3: a rejected fetch or a rejected probe never leaves the run; it becomes
\* an Unhealthy record with an error for that endpoint.
C3_FailureBecomesUnhealthyRecord ==
    /\ pc # "raised"
    /\ \A k \in DOMAIN outcomes :
          Rejected(outcomes[k]) =>
              /\ k \in DOMAIN result
              /\ result[k].status = "Unhealthy"
              /\ result[k].error # Undefined

\* C4: when the check of endpoint f fails in a list of valid endpoints, every
\* other endpoint j has its own record in the returned list, equal to the
\* record it gets when checked alone.
C4_FailureIsolated ==
    (AllValid /\ Done) =>
        \A f \in DOMAIN outcomes :
            Failed(outcomes[f]) =>
                \A j \in DOMAIN endpoints \ {f} :
                    /\ pc = "returned"
                    /\ j \in DOMAIN result
                    /\ j \in DOMAIN outcomes
                    /\ result[j] = Alone(endpoints[j], outcomes[j])

\* C5 (as stated): while some call is unanswered, every endpoint of a valid
\* list still gets dispatched and its record is eventually produced (unless
\* it is itself waiting for the network).
C5_SlowCheckDoesNotBlock ==
    \A j \in 1..MaxEndpoints :
        (pending # {} /\ AllValid /\ j \in DOMAIN endpoints)
            ~> (j \in DOMAIN result \/ j \in pending \/ pc = "raised")

\* C5 (amended): a slow check blocks every later check and no earlier
\* result: while the call of endpoint k is unanswered, no call for an
\* endpoint after k has been issued, and the result list holds exactly the
\* records of the endpoints before k.
C5_SlowCheckBlocksOnlyLater ==
    \A k \in pending :
        /\ \A c \in DOMAIN calls : calls[c].idx <= k
        /\ Len(result) = k - 1
        /\ \A j \in 1..(k - 1) : SameEndpoint(result[j], endpoints[j])

C5_Witness ==
    /\ pending = {1}
    /\ Len(endpoints) = 2
    /\ ValidType(endpoints[2])

\* C6: when the list holds an endpoint of unrecognized type, the run stops
\* at the first such endpoint without raising, the returned list holds
\* exactly the records of the endpoints before it, in order, and no call is
\* ever issued for that endpoint or a later one.
C6_TruncateAtUnknownType ==
    ~AllValid =>
        /\ pc # "raised"
        /\ \A c \in DOMAIN calls : calls[c].idx < FirstUnknown
        /\ Done =>
              /\ Len(result) = FirstUnknown - 1
              /\ \A j \in 1..(FirstUnknown - 1) :
                    SameEndpoint(result[j], endpoints[j])

\* C7: a fetch record is Healthy without error on status 200, Unhealthy
\* without error on any other status, and Unhealthy with error equal to the
\* failure's message on a transport failure.
C7_FetchClassification ==
    \A k \in DOMAIN result :
        endpoints[k].type = "fetch" =>
            /\ k \in DOMAIN outcomes
            /\ LET o == outcomes[k]
                   r == result[k]
               IN  /\ (o.kind = "response" /\ o.status = 200) =>
                          (r.status = "Healthy" /\ r.error = Undefined)
                   /\ (o.kind = "response" /\ o.status # 200) =>
                          (r.status = "Unhealthy" /\ r.error = Undefined)
                   /\ o.kind = "fetchRejected" =>
                          (r.status = "Unhealthy" /\ r.error = <<o.message>>)

C7_Witness ==
    /\ pc = "returned"
    /\ Len(result) = 2
    /\ endpoints[1].type = "fetch" /\ outcomes[1].kind = "fetchRejected"
    /\ endpoints[2].type = "fetch" /\ outcomes[2].kind = "response"
    /\ outcomes[2].status = 204

\* C8: a ping record is Healthy iff alive; independently, error is set
\* exactly when packetLoss is "100.000" or "unknown", to output when output
\* is non-empty and to "<target> - Unknown" when it is empty.
C8_PingClassification ==
    \A k \in DOMAIN result :
        endpoints[k].type = "ping" =>
            /\ k \in DOMAIN outcomes
            /\ LET o == outcomes[k]
                   r == result[k]
                   lost == o.packetLoss \in {"100.000", "unknown"}
               IN  /\ (r.status = "Healthy") <=> o.alive
                   /\ r.status \in {"Healthy", "Unhealthy"}
                   /\ (r.error # Undefined) <=> lost
                   /\ (lost /\ o.output # "") => r.error = <<o.output>>
                   /\ (lost /\ o.output = "") =>
                          r.error = <<endpoints[k].target \o " - Unknown">>

C8_Witness ==
    /\ pc = "returned"
    /\ Len(result) >= 1
    /\ endpoints[1].type = "ping"
    /\ outcomes[1].alive
    /\ outcomes[1].packetLoss = "unknown"
    /\ outcomes[1].output = ""
    /\ result[1].error = <<"t1 - Unknown">>

\* C9: with the endpoint configuration absent or empty, the run returns an
\* empty list, never raises and issues no ping probe and no HTTP request.
C9_EmptyConfigReturnsEmpty ==
    (config = Undefined \/ Len(endpoints) = 0) =>
        /\ pc # "raised"
        /\ calls = <<>>
        /\ Done => (pc = "returned" /\ result = <<>>)

C9_Witness ==
    /\ pc = "returned"
    /\ config = Undefined

\* C10: checks run strictly one after the other in declaration order, one
\* attempt each: at most one call is unanswered, the c-th call issued is for
\* endpoint c, and it is issued only once the records of all endpoints
\* before c are in the result list.
C10_StrictlySequential ==
    /\ Cardinality(pending) <= 1
    /\ \A c \in DOMAIN calls : calls[c].idx = c
    /\ Len(calls) <= Len(result) + 1
    /\ \A k \in pending : Len(result) = k - 1

C10_Witness ==
    /\ pc = "awaitFetch"
    /\ i = 2
    /\ Len(calls) = 2
    /\ Len(result) = 1
    /\ calls[1].kind = "ping"

====
